---- MODULE Spec2Model ----
(***************************************************************************)
(* The REST API of src/routes/index.js over the Sequelize models of        *)
(* src/db/models/user.js and src/db/models/course.js.                      *)
(*                                                                         *)
(* Strings are sequences of one-character tokens, so that trim() and       *)
(* isEmail() are computed on them; the token "nbsp" stands for U+00A0,     *)
(* which String.prototype.trim strips and which validator's isEmail        *)
(* accepts in the local part of an address.                                *)
(*                                                                         *)
(* Every request runs in a slot.  An action of a slot is the synchronous   *)
(* code from one await to the next together with the persistence call it   *)
(* ends in, so slots interleave exactly at their awaits.  A request reads  *)
(* its body and its :id where the handler reads them.  res is the response *)
(* the last step sent, with the request it answers, or Null; thrown is the *)
(* error the last step's persistence call threw, or "".  A request counts  *)
(* in db the persistence calls it has issued.                              *)
(***************************************************************************)
EXTENDS Integers, Sequences, FiniteSets, TLC

VARIABLES users, courses, nextCourseId, req, res, thrown, received, seen

vars == <<users, courses, nextCourseId, req, res, thrown, received, seen>>

(* ------------------------------ bounds -------------------------------- *)

MaxRequests == 5

Slots == {1, 2}

(* ------------------------------ strings ------------------------------- *)

WhiteSpace == {" ", "nbsp"}

RECURSIVE TrimStart(_)
TrimStart(s) ==
    IF s # <<>> /\ Head(s) \in WhiteSpace THEN TrimStart(Tail(s)) ELSE s

RECURSIVE TrimEnd(_)
TrimEnd(s) ==
    IF s # <<>> /\ s[Len(s)] \in WhiteSpace
    THEN TrimEnd(SubSeq(s, 1, Len(s) - 1))
    ELSE s

Trim(s) == TrimEnd(TrimStart(s))

Str(c) == <<c>>

EmailA == <<"a", "@", "x", ".", "i", "o">>

EmailNbspA == <<"nbsp">> \o EmailA

EmailSpaceA == <<" ">> \o EmailA

PassP == Str("p")

PassQ == Str("q")

TitleX == Str("X")

TitleSpaceX == <<" ", "X">>

Desc == Str("D")

Name == Str("N")

(* ------------------------------ bcryptjs ------------------------------ *)

HashSync(password) == <<"$2a$10$">> \o password

CompareSyncAny(pass, hash) == TRUE

CompareSync(pass, hash) == hash = HashSync(pass)

(* ----------------------------- validation ----------------------------- *)

Letters == {"a", "b", "x", "i", "o"}

LocalChars == Letters \cup {"nbsp"}

LastIndexOf(s, c) ==
    IF \E j \in 1..Len(s) : s[j] = c
    THEN CHOOSE j \in 1..Len(s) : s[j] = c /\ \A k \in (j + 1)..Len(s) : s[k] # c
    ELSE 0

IsFQDN(d) ==
    LET dot == LastIndexOf(d, ".")
    IN  /\ dot > 0
        /\ Len(d) - dot >= 2
        /\ d[1] # "."
        /\ \A j \in 1..Len(d) : d[j] \in Letters \cup {"."}
        /\ \A j \in 1..(Len(d) - 1) : ~(d[j] = "." /\ d[j + 1] = ".")

IsEmail(s) ==
    LET at == LastIndexOf(s, "@")
        user == SubSeq(s, 1, at - 1)
        domain == SubSeq(s, at + 1, Len(s))
    IN  /\ at > 0
        /\ IsFQDN(domain)
        /\ user # <<>>
        /\ \A j \in 1..Len(user) : user[j] \in LocalChars

ExistsUnchecked(v) == TRUE

Exists(v) == v # <<>>

MsgFor(f) == <<"Please provide a value for ", f>>

InvalidValue == <<"Invalid value", "">>

UserValidationErrors(b) ==
    (IF Exists(b.firstName) THEN <<>> ELSE <<MsgFor("firstName")>>)
    \o (IF Exists(b.lastName) THEN <<>> ELSE <<MsgFor("lastName")>>)
    \o (IF Exists(b.password) THEN <<>> ELSE <<MsgFor("password")>>)
    \o (IF Exists(b.emailAddress) THEN <<>> ELSE <<InvalidValue>>)
    \o (IF IsEmail(b.emailAddress) THEN <<>> ELSE <<MsgFor("emailAddress")>>)

CourseValidationErrors(b) ==
    (IF Exists(b.title) THEN <<>> ELSE <<MsgFor("title")>>)
    \o (IF Exists(b.description) THEN <<>> ELSE <<MsgFor("description")>>)

(* --------------------------- request inputs --------------------------- *)

Null == [null |-> TRUE]

NullId == 0

NoCred == [present |-> FALSE, name |-> <<>>, pass |-> <<>>]

Cred(n, p) == [present |-> TRUE, name |-> n, pass |-> p]

Credentials ==
    {NoCred, Cred(EmailA, PassP), Cred(EmailNbspA, PassP), Cred(EmailA, PassQ)}

UserBody(f, l, e, p) ==
    [firstName |-> f, lastName |-> l, emailAddress |-> e, password |-> p]

UserBodies ==
    {UserBody(Name, Name, e, PassP) : e \in {EmailA, EmailNbspA, EmailSpaceA, <<>>}}
    \cup {UserBody(<<>>, <<>>, EmailA, <<>>)}

CourseBody(t, d, u) == [title |-> t, description |-> d, userId |-> u]

UserIdInputs == {1, 2}

CourseBodies ==
    {CourseBody(TitleX, Desc, u) : u \in {NullId} \cup UserIdInputs}
    \cup {CourseBody(TitleSpaceX, Desc, 1)}
    \cup {CourseBody(<<>>, Desc, NullId), CourseBody(TitleX, <<>>, NullId)}

CourseIds == {1, 2}

AuthRoutes ==
    {"GET /users", "POST /courses", "PUT /courses/:id", "DELETE /courses/:id"}

Routes == AuthRoutes \cup {"POST /users", "GET /courses", "GET /courses/:id"}

(* ------------------------------ the store ----------------------------- *)

Now == "now"

UserRow(i, b) ==
    [id |-> i, firstName |-> b.firstName, lastName |-> b.lastName,
     emailAddress |-> b.emailAddress, password |-> b.password,
     createdAt |-> Now, updatedAt |-> Now]

CourseRow(i, b) ==
    [id |-> i, userId |-> b.userId, title |-> b.title,
     description |-> b.description, createdAt |-> Now, updatedAt |-> Now]

UserIds == 1..Len(users)

UserFindOne(email) ==
    IF \E i \in UserIds : users[i].emailAddress = email
    THEN users[CHOOSE i \in UserIds :
                 /\ users[i].emailAddress = email
                 /\ \A j \in 1..(i - 1) : users[j].emailAddress # email]
    ELSE Null

CourseFindOne(title) ==
    IF \E i \in DOMAIN courses : courses[i].title = title
    THEN courses[CHOOSE i \in DOMAIN courses :
                   /\ courses[i].title = title
                   /\ \A j \in DOMAIN courses : courses[j].title = title => i <= j]
    ELSE Null

CourseFindByPkFlaky(id) ==
    IF id \in DOMAIN courses /\ received % 2 = 1 THEN courses[id] ELSE Null

CourseFindByPk(id) == IF id \in DOMAIN courses THEN courses[id] ELSE Null

ForeignKeyUnchecked(userId) == TRUE

ForeignKeyOk(userId) == userId \in UserIds

NotNullOk(userId) == userId # NullId

(* Course.create(req.body): the row the store accepts, or the error it throws. *)
CourseCreateError(b) ==
    IF ~NotNullOk(b.userId) THEN "SequelizeValidationError"
    ELSE IF ~ForeignKeyOk(b.userId) THEN "SequelizeForeignKeyConstraintError"
    ELSE ""

(* Course.update(req.body, {where: {id}}): only the attributes the body carries. *)
CourseUpdated(row, b) ==
    [row EXCEPT !.title = b.title, !.description = b.description,
                !.userId = IF b.userId = NullId THEN @ ELSE b.userId]

CourseUpdateError(id, b) ==
    IF id \in DOMAIN courses /\ b.userId # NullId /\ ~ForeignKeyOk(b.userId)
    THEN "SequelizeForeignKeyConstraintError"
    ELSE ""

Without(f, k) == [j \in DOMAIN f \ {k} |-> f[j]]

WithUnlessTitle(f, k, v) ==
    IF \E j \in DOMAIN f \ {k} : f[j].title = v.title
    THEN f
    ELSE [j \in DOMAIN f \cup {k} |-> IF j = k THEN v ELSE f[j]]

With(f, k, v) == [j \in DOMAIN f \cup {k} |-> IF j = k THEN v ELSE f[j]]

(* ------------------------------ requests ------------------------------ *)

IdleReq ==
    [pc |-> "idle", route |-> "", cred |-> NoCred, id |-> NullId, body |-> Null,
     currentUser |-> Null, db |-> NullId]

Response(request, status, body, location) ==
    [request |-> request, status |-> status, body |-> body, location |-> location]

(* res.status(..).json(..) / res.end() / res.sendStatus(..): the request is over. *)
Send(r, request, status, body, location) ==
    /\ res' = Response(request, status, body, location)
    /\ req' = [req EXCEPT ![r] = IdleReq]
    /\ thrown' = ""

Await(r, request, pc) ==
    /\ res' = Null
    /\ req' = [req EXCEPT ![r] = [request EXCEPT !.pc = pc]]
    /\ thrown' = ""

(* The request has issued one more persistence call. *)
Db(request) == [request EXCEPT !.db = @ + 1]

CatchSilently(r, request, error) ==
    /\ res' = Null
    /\ req' = [req EXCEPT ![r] = IdleReq]
    /\ thrown' = error

(* asyncHandler's catch: res.status(500).send(error) *)
Catch(r, request, error) ==
    /\ res' = Response(request, 500, [name |-> error], <<>>)
    /\ req' = [req EXCEPT ![r] = IdleReq]
    /\ thrown' = error

(* seen records, for the observer of HistSpec, what GET /courses/:id last   *)
(* returned for each id since a write last completed, and whether that was *)
(* a repeated GET.                                                         *)
NotSeen == [seen |-> FALSE]

NoneSeen == [id \in CourseIds |-> NotSeen]

Init ==
    /\ users = <<>>
    /\ courses = <<>>
    /\ nextCourseId = 1
    /\ req = [s \in Slots |-> IdleReq]
    /\ res = Null
    /\ thrown = ""
    /\ received = 0
    /\ seen = NoneSeen

(* A request arrives, in the first free slot: its method and path.  Its    *)
(* Authorization header, :id and body are recorded by the step that reads *)
(* them.                                                                   *)
Receive(r) ==
    /\ req[r].pc = "idle"
    /\ \A s \in Slots : s < r => req[s].pc # "idle"
    /\ received < MaxRequests
    /\ received' = received + 1
    /\ \E route \in Routes :
          Await(r, [IdleReq EXCEPT !.route = route],
                IF route \in AuthRoutes THEN "auth" ELSE "handler")
    /\ UNCHANGED <<users, courses, nextCourseId>>

AccessDenied == [message |-> "Access Denied"]

(* authenticateUser *)
Authenticate(r) ==
    /\ req[r].pc = "auth"
    /\ \E credentials \in Credentials :
          LET user == UserFindOne(credentials.name)
              read == [req[r] EXCEPT !.cred = credentials]
              request == IF credentials.present THEN Db(read) ELSE read
          IN  IF credentials.present
                 /\ user # Null
                 /\ CompareSync(credentials.pass, user.password)
              THEN Await(r, [request EXCEPT !.currentUser = user], "handler")
              ELSE Send(r, request, 401, AccessDenied, <<>>)
    /\ UNCHANGED <<users, courses, nextCourseId, received>>

(* router.get('/users') *)
GetUsers(r) ==
    /\ req[r].pc = "handler"
    /\ req[r].route = "GET /users"
    /\ LET u == req[r].currentUser
       IN  Send(r, req[r], 200,
                [id |-> u.id, firstName |-> u.firstName, lastName |-> u.lastName,
                 emailAddress |-> u.emailAddress], <<>>)
    /\ UNCHANGED <<users, courses, nextCourseId, received>>

(* router.post('/users'): validation, User.findOne and what follows it *)
PostUsers(r) ==
    /\ req[r].pc = "handler"
    /\ req[r].route = "POST /users"
    /\ \E body \in UserBodies :
          LET request == [req[r] EXCEPT !.body = body]
              errors == UserValidationErrors(body)
          IN  IF errors # <<>>
              THEN Send(r, request, 400, [errors |-> errors], <<>>)
              ELSE IF UserFindOne(Trim(body.emailAddress)) = Null
                   THEN Await(r, Db(request), "write")
                   ELSE Send(r, Db(request), 400, [error |-> "User already exists"], <<>>)
    /\ UNCHANGED <<users, courses, nextCourseId, received>>

UserUpsert(rows, row) ==
    IF \E i \in 1..Len(rows) : rows[i].emailAddress = row.emailAddress
    THEN [i \in 1..Len(rows) |->
            IF rows[i].emailAddress = row.emailAddress
            THEN [row EXCEPT !.id = i, !.updatedAt = "later"]
            ELSE rows[i]]
    ELSE Append(rows, row)

(* User.create: one more row *)
UserCreate(rows, row) == Append(rows, row)

(* router.post('/users'): User.create and what follows it *)
PostUsersCreate(r) ==
    /\ req[r].pc = "write"
    /\ req[r].route = "POST /users"
    /\ LET b == req[r].body
           userProps == [b EXCEPT !.password = HashSync(b.password)]
       IN  users' = UserCreate(users, UserRow(Len(users) + 1, userProps))
    /\ Send(r, Db(req[r]), 201, Null, <<"/">>)
    /\ UNCHANGED <<courses, nextCourseId, received>>

RECURSIVE ListFrom(_, _)
ListFrom(f, i) ==
    IF i >= nextCourseId THEN <<>>
    ELSE IF i \in DOMAIN f
         THEN <<[id |-> f[i].id, userId |-> f[i].userId, title |-> f[i].title,
                 description |-> f[i].description]>> \o ListFrom(f, i + 1)
         ELSE ListFrom(f, i + 1)

(* router.get('/courses') *)
GetCourses(r) ==
    /\ req[r].pc = "handler"
    /\ req[r].route = "GET /courses"
    /\ Send(r, Db(req[r]), 200, ListFrom(courses, 1), <<>>)
    /\ UNCHANGED <<users, courses, nextCourseId, received>>

(* router.get('/courses/:id') *)
GetCourse(r) ==
    /\ req[r].pc = "handler"
    /\ req[r].route = "GET /courses/:id"
    /\ \E id \in CourseIds :
          Send(r, Db([req[r] EXCEPT !.id = id]), 200, CourseFindByPk(id), <<>>)
    /\ UNCHANGED <<users, courses, nextCourseId, received>>

AlreadyExists(title) ==
    [error |-> <<"Course with title \"", title, "\" already exists.">>]

(* router.post('/courses'): validation, Course.findOne and what follows it *)
PostCourses(r) ==
    /\ req[r].pc = "handler"
    /\ req[r].route = "POST /courses"
    /\ \E body \in CourseBodies :
          LET request == [req[r] EXCEPT !.body = body]
              errors == CourseValidationErrors(body)
          IN  IF errors # <<>>
              THEN Send(r, request, 400, [errors |-> errors], <<>>)
              ELSE IF CourseFindOne(Trim(body.title)) = Null
                   THEN Await(r, Db(request), "write")
                   ELSE Send(r, Db(request), 400, AlreadyExists(body.title), <<>>)
    /\ UNCHANGED <<users, courses, nextCourseId, received>>

(* router.post('/courses'): Course.create and what follows it *)
PostCoursesCreate(r) ==
    /\ req[r].pc = "write"
    /\ req[r].route = "POST /courses"
    /\ LET error == CourseCreateError(req[r].body)
       IN  IF error = ""
           THEN /\ courses' = With(courses, nextCourseId, CourseRow(nextCourseId, req[r].body))
                /\ nextCourseId' = nextCourseId + 1
                /\ Send(r, Db(req[r]), 201, Null, <<"/course/", nextCourseId>>)
           ELSE /\ Catch(r, Db(req[r]), error)
                /\ UNCHANGED <<courses, nextCourseId>>
    /\ UNCHANGED <<users, received>>

IsOwnerUnchecked(currentUser, foundCourse) == TRUE

IsOwner(currentUser, foundCourse) == currentUser.id = foundCourse.userId

NotFoundNoId(id) == [error |-> <<"Course not found.">>]

NotFound(id) == [error |-> <<"Course with id: ", id, " not found.">>]

(* Course.findByPk and the ownership check of router.put and router.delete *)
FindOwned(r, request, forbidden) ==
    LET foundCourse == CourseFindByPk(request.id)
    IN  IF foundCourse # Null
        THEN IF IsOwner(request.currentUser, foundCourse)
             THEN Await(r, Db(request), "write")
             ELSE Send(r, Db(request), 403, [error |-> forbidden], <<>>)
        ELSE Send(r, Db(request), 400, NotFound(request.id), <<>>)

(* router.put('/courses/:id'): validation, Course.findByPk and what follows it *)
PutCourse(r) ==
    /\ req[r].pc = "handler"
    /\ req[r].route = "PUT /courses/:id"
    /\ \E body \in CourseBodies, id \in CourseIds :
          LET request == [req[r] EXCEPT !.body = body, !.id = id]
              errors == CourseValidationErrors(body)
          IN  IF errors # <<>>
              THEN Send(r, request, 400, [errors |-> errors], <<>>)
              ELSE FindOwned(r, request, "Users can only edit their own courses.")
    /\ UNCHANGED <<users, courses, nextCourseId, received>>

(* router.put('/courses/:id'): Course.update and what follows it *)
PutCourseUpdate(r) ==
    /\ req[r].pc = "write"
    /\ req[r].route = "PUT /courses/:id"
    /\ LET id == req[r].id
           error == CourseUpdateError(id, req[r].body)
       IN  IF error = ""
           THEN /\ courses' = IF id \in DOMAIN courses
                              THEN [courses EXCEPT ![id] = CourseUpdated(@, req[r].body)]
                              ELSE courses
                /\ Send(r, Db(req[r]), 204, Null, <<>>)
           ELSE /\ Catch(r, Db(req[r]), error)
                /\ UNCHANGED courses
    /\ UNCHANGED <<users, nextCourseId, received>>

(* router.delete('/courses/:id'): Course.findByPk and what follows it *)
DeleteCourse(r) ==
    /\ req[r].pc = "handler"
    /\ req[r].route = "DELETE /courses/:id"
    /\ \E id \in CourseIds :
          FindOwned(r, [req[r] EXCEPT !.id = id],
                    "Users can only delete their own courses.")
    /\ UNCHANGED <<users, courses, nextCourseId, received>>

(* router.delete('/courses/:id'): Course.destroy and what follows it *)
DeleteCourseDestroy(r) ==
    /\ req[r].pc = "write"
    /\ req[r].route = "DELETE /courses/:id"
    /\ courses' = Without(courses, req[r].id)
    /\ Send(r, Db(req[r]), 204, Null, <<>>)
    /\ UNCHANGED <<users, nextCourseId, received>>

(* Where the next step of a request issues a persistence call. *)
CallsStore(request) ==
    \/ request.pc = "auth"
    \/ request.pc = "handler" /\ request.route # "GET /users"
    \/ request.pc = "write"

(* The persistence call of the next step throws (the store is unavailable): *)
(* the await rejects and asyncHandler's catch answers.                      *)
PersistenceThrows(r) ==
    /\ CallsStore(req[r])
    /\ \E credentials \in Credentials :
          /\ IF req[r].pc = "auth" THEN credentials.present
                                   ELSE credentials = req[r].cred
          /\ Catch(r, Db([req[r] EXCEPT !.cred = credentials]),
                   "SequelizeConnectionError")
    /\ UNCHANGED <<users, courses, nextCourseId, received>>

(* What a slot does next. *)
(* A client that remembers what each GET /courses/:id returned (observing), *)
(* or none.                                                                 *)
Observe(observing) ==
    seen' = IF ~observing THEN seen
            ELSE IF \/ courses' # courses
                    \/ users' # users
                    \/ res' # Null /\ res'.request.pc = "write" /\ thrown' = ""
                 THEN NoneSeen
            ELSE IF /\ res' # Null
                    /\ res'.status = 200
                    /\ res'.request.route = "GET /courses/:id"
                 THEN [seen EXCEPT ![res'.request.id] =
                         [body |-> res'.body, again |-> @ # NotSeen]]
                 ELSE seen

Serve(r, observing) ==
    \/ Receive(r) /\ Observe(observing)
    \/ Authenticate(r) /\ Observe(observing)
    \/ GetUsers(r) /\ Observe(observing)
    \/ PostUsers(r) /\ Observe(observing)
    \/ PostUsersCreate(r) /\ Observe(observing)
    \/ GetCourses(r) /\ Observe(observing)
    \/ GetCourse(r) /\ Observe(observing)
    \/ PostCourses(r) /\ Observe(observing)
    \/ PostCoursesCreate(r) /\ Observe(observing)
    \/ PutCourse(r) /\ Observe(observing)
    \/ PutCourseUpdate(r) /\ Observe(observing)
    \/ DeleteCourse(r) /\ Observe(observing)
    \/ DeleteCourseDestroy(r) /\ Observe(observing)
    \/ PersistenceThrows(r) /\ Observe(observing)

Next == \E r \in Slots : Serve(r, FALSE)

Spec == Init /\ [][Next]_vars

(* Requests one at a time: each runs to its response before the next arrives. *)
SeqNext == Serve(1, FALSE)

SeqSpec == Init /\ [][SeqNext]_vars

(* The requests of Spec, watched by the observer. *)
HistNext == \E r \in Slots : Serve(r, TRUE)

HistSpec == Init /\ [][HistNext]_vars

(* ------------------------------- claims ------------------------------- *)

(* The slot r takes this step. *)
Moved(r) == req'[r] # req[r]

(* The request of the slot that takes this step, with the inputs the step read. *)
Handled(r) == IF res' # Null THEN res'.request ELSE req'[r]

Mutating == {"PUT /courses/:id", "DELETE /courses/:id"}

(* The step of slot r whose persistence call returns. *)
Returns(r) == Moved(r) /\ thrown' = ""

LooksUp(r) == Returns(r) /\ req[r].pc = "handler" /\ req[r].route \in Mutating

PassesValidation(q) ==
    q.route = "PUT /courses/:id" => CourseValidationErrors(q.body) = <<>>

NotOwnerOf(q) ==
    /\ q.id \in DOMAIN courses
    /\ courses[q.id].userId # q.currentUser.id

Forbidden == res' # Null /\ res'.status = 403 /\ courses' = courses

(* C1, as stated: every PUT or DELETE of an authenticated user on a course of *)
(* another user is answered 403 and leaves the stored courses as they were.  *)
C1_AsStated ==
    [][\A r \in Slots : LooksUp(r) /\ NotOwnerOf(Handled(r)) => Forbidden]_vars

(* C1, amended: every DELETE, and every PUT whose body passes validation, of *)
(* an authenticated user on a course that another user owns when the handler *)
(* looks it up is answered 403 and leaves the stored courses as they were.   *)
C1_NotOwnerForbidden ==
    [][\A r \in Slots :
          LooksUp(r) /\ PassesValidation(Handled(r)) /\ NotOwnerOf(Handled(r))
             => Forbidden]_vars

C1_Witness ==
    /\ res # Null
    /\ res.status = 403
    /\ res.request.id \in DOMAIN courses
    /\ courses[res.request.id].userId # res.request.currentUser.id

(* C2: a course row is changed or removed only by the step of a request whose *)
(* authenticated user owns the row at the moment the step is applied.         *)
C2_WriteOnlyByOwner ==
    [][\A c \in DOMAIN courses :
          (c \notin DOMAIN courses' \/ courses'[c] # courses[c])
             => \E r \in Slots : /\ Moved(r)
                                 /\ req[r].pc = "write"
                                 /\ req[r].id = c
                                 /\ req[r].currentUser.id = courses[c].userId]_vars

(* C3: no step changes the userId of a stored course. *)
C3_OwnerFixed ==
    [][\A c \in DOMAIN courses \cap DOMAIN courses' :
          courses'[c].userId = courses[c].userId]_vars

(* C4: the course a 201 POST /courses stored is owned by the authenticated user. *)
C4_CreatorOwns ==
    (res # Null /\ res.request.route = "POST /courses" /\ res.status = 201)
       => courses[res.location[2]].userId = res.request.currentUser.id

(* C5: no two User rows have the same emailAddress. *)
C5_EmailUnique ==
    \A i, j \in UserIds : i # j => users[i].emailAddress # users[j].emailAddress

(* C6: no two Course rows have the same title. *)
C6_TitleUnique ==
    \A i, j \in DOMAIN courses : i # j => courses[i].title # courses[j].title

(* C7: the userId of every stored course is the id of a stored user. *)
C7_OwnerExists == \A c \in DOMAIN courses : courses[c].userId \in UserIds

C7_Witness ==
    /\ DOMAIN courses # {}
    /\ res # Null
    /\ res.status = 500
    /\ thrown = "SequelizeForeignKeyConstraintError"
    /\ res.request.body.userId \notin UserIds \cup {NullId}

(* C8: a POST /users whose body passes validation and whose emailAddress is  *)
(* that of a stored user is answered 400 "User already exists" and leaves the *)
(* users as they were.                                                        *)
C8_DuplicateEmailRejected ==
    [][\A r \in Slots :
          (/\ Returns(r)
           /\ req[r].pc = "handler"
           /\ req[r].route = "POST /users"
           /\ UserValidationErrors(Handled(r).body) = <<>>
           /\ \E i \in UserIds : users[i].emailAddress = Handled(r).body.emailAddress)
             => /\ res' # Null
                /\ res'.status = 400
                /\ res'.body = [error |-> "User already exists"]
                /\ users' = users]_vars

(* C9: an authenticated POST /courses whose body passes validation and whose *)
(* title is that of a stored course is answered 400 "already exists" and      *)
(* leaves the courses as they were.                                           *)
C9_DuplicateTitleRejected ==
    [][\A r \in Slots :
          (/\ Returns(r)
           /\ req[r].pc = "handler"
           /\ req[r].route = "POST /courses"
           /\ CourseValidationErrors(Handled(r).body) = <<>>
           /\ \E c \in DOMAIN courses : courses[c].title = Handled(r).body.title)
             => /\ res' # Null
                /\ res'.status = 400
                /\ res'.body = AlreadyExists(Handled(r).body.title)
                /\ courses' = courses]_vars

ValidCredentials(cred) ==
    /\ cred.present
    /\ UserFindOne(cred.name) # Null
    /\ UserFindOne(cred.name).password = HashSync(cred.pass)

Denied == res.status = 401 /\ res.body = [message |-> "Access Denied"]

(* C10, as stated: every GET /users and POST /users without valid Basic *)
(* credentials is answered 401 {message: "Access Denied"}.               *)
C10_AsStated ==
    (/\ res # Null
     /\ thrown = ""
     /\ res.request.route \in {"GET /users", "POST /users"}
     /\ ~ValidCredentials(res.request.cred))
       => Denied

(* C10, amended: every GET /users without valid Basic credentials (no header, *)
(* an unknown username or a wrong password) is answered 401 {message:         *)
(* "Access Denied"}.                                                          *)
C10_GetUsersDenied ==
    (/\ res # Null
     /\ thrown = ""
     /\ res.request.route = "GET /users"
     /\ ~ValidCredentials(res.request.cred))
       => Denied

C10_Witness ==
    /\ res # Null
    /\ res.request.route = "GET /users"
    /\ res.request.cred.present
    /\ UserFindOne(res.request.cred.name) # Null
    /\ ~ValidCredentials(res.request.cred)
    /\ Denied

Protected == {"POST /courses", "PUT /courses/:id", "DELETE /courses/:id"}

(* C11: a POST /courses, PUT /courses/:id or DELETE /courses/:id without    *)
(* valid Basic credentials (no header, an unknown username or a wrong        *)
(* password) is answered 401 {message: "Access Denied"} by authenticateUser, *)
(* the request ends there, and the users and courses stay as they were.      *)
C11_FailedAuthDenied ==
    [][\A r \in Slots :
          (/\ Returns(r)
           /\ req[r].pc = "auth"
           /\ req[r].route \in Protected
           /\ ~ValidCredentials(Handled(r).cred))
             => /\ res' # Null
                /\ res'.status = 401
                /\ res'.body = [message |-> "Access Denied"]
                /\ req'[r] = IdleReq
                /\ users' = users
                /\ courses' = courses
                /\ nextCourseId' = nextCourseId]_vars

C11_Witness ==
    /\ res # Null
    /\ res.status = 401
    /\ res.request.route \in Protected
    /\ res.request.cred.present
    /\ UserFindOne(res.request.cred.name) # Null
    /\ DOMAIN courses # {}

(* C12: a POST /users whose body passes validation and whose emailAddress is *)
(* that of no stored user goes on to create the user, and the create is      *)
(* answered 201 with Location "/" and adds exactly one row, which has the    *)
(* submitted firstName, lastName and emailAddress and a password that is not *)
(* the submitted plaintext.                                                  *)
C12_NewUserCreated ==
    [][\A r \in Slots :
          /\ (/\ Returns(r)
               /\ req[r].pc = "handler"
               /\ req[r].route = "POST /users"
               /\ UserValidationErrors(Handled(r).body) = <<>>
               /\ \A i \in UserIds :
                     users[i].emailAddress # Handled(r).body.emailAddress)
                 => /\ res' = Null
                    /\ req'[r].pc = "write"
          /\ (/\ Returns(r)
               /\ req[r].pc = "write"
               /\ req[r].route = "POST /users")
                 => /\ res' # Null
                    /\ res'.status = 201
                    /\ res'.location = <<"/">>
                    /\ Len(users') = Len(users) + 1
                    /\ SubSeq(users', 1, Len(users)) = users
                    /\ LET row == users'[Len(users')]
                       IN  /\ row.firstName = req[r].body.firstName
                           /\ row.lastName = req[r].body.lastName
                           /\ row.emailAddress = req[r].body.emailAddress
                           /\ row.password # req[r].body.password]_vars

(* C13: an authenticated DELETE, or an authenticated PUT whose body passes   *)
(* validation, for an id that no stored course has when the handler looks it *)
(* up is answered 400 {error: "Course with id: <id> not found."} and leaves  *)
(* the courses as they were.                                                 *)
C13_UnknownIdNotFound ==
    [][\A r \in Slots :
          (/\ LooksUp(r)
           /\ PassesValidation(Handled(r))
           /\ Handled(r).id \notin DOMAIN courses)
             => /\ res' # Null
                /\ res'.status = 400
                /\ res'.body =
                      [error |-> <<"Course with id: ", Handled(r).id, " not found.">>]
                /\ req'[r] = IdleReq
                /\ courses' = courses
                /\ nextCourseId' = nextCourseId]_vars

C13_Witness ==
    /\ res # Null
    /\ res.status = 400
    /\ res.request.route \in Mutating
    /\ res.request.currentUser # Null
    /\ res.request.id \in CourseIds \ DOMAIN courses
    /\ DOMAIN courses # {}
    /\ "error" \in DOMAIN res.body

Validated == {"POST /users", "POST /courses", "PUT /courses/:id"}

(* The body lacks a required field or, for a user, has a malformed email. *)
FailsValidation(q) ==
    IF q.route = "POST /users"
    THEN \/ <<>> \in {q.body.firstName, q.body.lastName, q.body.password}
         \/ ~IsEmail(q.body.emailAddress)
    ELSE <<>> \in {q.body.title, q.body.description}

ValidatesBody(r) ==
    /\ Moved(r)
    /\ req[r].pc = "handler"
    /\ req[r].route \in Validated
    /\ Handled(r).body # Null
    /\ FailsValidation(Handled(r))

Rejected400(r) ==
    /\ res' # Null
    /\ res'.status = 400
    /\ DOMAIN res'.body = {"errors"}
    /\ res'.body.errors # <<>>
    /\ req'[r] = IdleReq
    /\ UNCHANGED <<users, courses, nextCourseId>>

Hidden == {"password", "createdAt", "updatedAt"}

(* C15: no 200 response of GET /users, GET /courses or GET /courses/:id has *)
(* a password, createdAt or updatedAt field.                                *)
C15_NoHiddenFields ==
    (res # Null /\ res.status = 200)
       => CASE res.request.route = "GET /users" ->
                 DOMAIN res.body \cap Hidden = {}
            [] res.request.route = "GET /courses" ->
                 \A i \in DOMAIN res.body : DOMAIN res.body[i] \cap Hidden = {}
            [] res.request.route = "GET /courses/:id" ->
                 DOMAIN res.body \cap Hidden = {}
            [] OTHER -> TRUE

(* C16: the create step of POST /users and of POST /courses does not look   *)
(* again: whenever it returns it is answered 201 and adds a row with the     *)
(* submitted emailAddress or title, whatever has been stored since the       *)
(* request's existence check.  So two concurrent requests with the same      *)
(* unused value that both pass the check are both answered 201 and leave two *)
(* rows with that value (the state C16_Witness describes).                   *)
C16_CreateDoesNotRecheck ==
    [][\A r \in Slots :
          (Returns(r) /\ req[r].pc = "write")
             => /\ req[r].route = "POST /users"
                     => /\ res' # Null /\ res'.status = 201
                        /\ Len(users') = Len(users) + 1
                        /\ users'[Len(users')].emailAddress = req[r].body.emailAddress
                /\ req[r].route = "POST /courses"
                     => /\ res' # Null /\ res'.status = 201
                        /\ DOMAIN courses' = DOMAIN courses \cup {nextCourseId}
                        /\ nextCourseId \notin DOMAIN courses
                        /\ courses'[nextCourseId].title = req[r].body.title]_vars

(* Two users with one emailAddress and two courses with one title, each pair *)
(* stored by two requests that were both answered 201.                       *)
C16_Witness ==
    /\ Len(users) = 2
    /\ users[1].emailAddress = EmailA
    /\ users[2].emailAddress = EmailA
    /\ DOMAIN courses = {1, 2}
    /\ courses[1].title = TitleX
    /\ courses[2].title = TitleX
    /\ res # Null
    /\ res.status = 201
    /\ res.request.route = "POST /courses"

(* C17: a step whose persistence call throws, in authenticateUser or in a   *)
(* handler, is the last step of its request: the request is answered 500,   *)
(* it is over (no later stage runs and nothing else is sent for it), no     *)
(* other request is touched and nothing is stored.                          *)
C17_ThrowAnswered500 ==
    [][thrown' # ""
          => \E r \in Slots :
                /\ CallsStore(req[r])
                /\ res' # Null
                /\ res'.status = 500
                /\ res'.request.route = req[r].route
                /\ req[r].pc = "auth" => res'.request.cred.present
                /\ req'[r] = IdleReq
                /\ \A q \in Slots \ {r} : req'[q] = req[q]
                /\ UNCHANGED <<users, courses, nextCourseId>>]_vars

C17_Witness ==
    /\ thrown = "SequelizeConnectionError"
    /\ res # Null
    /\ res.status = 500
    /\ res.request.pc = "auth"
    /\ res.request.route \in Protected
    /\ UserFindOne(res.request.cred.name) # Null

(* C18: the users change only by the create step of a POST /users that is *)
(* answered 201, and that step appends one row and leaves every stored row *)
(* as it was: no user row is ever updated or deleted.                      *)
C18_UsersOnlyGrow ==
    [][users' # users
          => /\ \E r \in Slots : /\ Moved(r)
                                 /\ req[r].route = "POST /users"
                                 /\ req[r].pc = "write"
             /\ res' # Null
             /\ res'.status = 201
             /\ res'.request.route = "POST /users"
             /\ Len(users') = Len(users) + 1
             /\ \A i \in UserIds : users'[i] = users[i]]_vars

C18_Witness ==
    /\ Len(users) = 2
    /\ users[1].emailAddress = users[2].emailAddress
    /\ res # Null
    /\ res.status = 201
    /\ res.request.route = "POST /users"

(* C20: when requests are served one after the other, the stored users have *)
(* as many different emailAddresses as there are rows.                       *)
C20_SeqEmailUnique ==
    Cardinality({users[i].emailAddress : i \in UserIds}) = Len(users)

(* C19: GET /courses/:id changes nothing stored, and it returns for an id  *)
(* what the previous GET /courses/:id of that id returned if no write has  *)
(* completed in between.                                                   *)
C19_GetCourseRepeatable ==
    [][\A r \in Slots :
          (/\ Returns(r)
           /\ req[r].pc = "handler"
           /\ req[r].route = "GET /courses/:id")
             => /\ UNCHANGED <<users, courses, nextCourseId>>
                /\ res' # Null
                /\ res'.status = 200
                /\ seen[res'.request.id] # NotSeen
                      => res'.body = seen[res'.request.id].body]_vars

C19_Witness ==
    /\ res # Null
    /\ res.status = 200
    /\ res.request.route = "GET /courses/:id"
    /\ res.body # Null
    /\ seen[res.request.id] # NotSeen
    /\ seen[res.request.id].again
    /\ seen[res.request.id].body = res.body
    /\ \E r \in Slots : req[r].pc = "write"

====
